---- MODULE Spec2Model ----
(***************************************************************************)
(* Sparse Merkle tree of sparse_tree/src/smt.rs: SparseMerkleTree          *)
(* (insert_batch, new, root, generate_membership_path, batch_prove),       *)
(* Path (check_membership), PartialTree (verify) and gen_empty_hashes.     *)
(*                                                                         *)
(* Digests are symbolic: a leaf value v is <<v>>, the two-to-one hash of   *)
(* a and b is the pair <<a, b>>, so two digests are equal exactly when     *)
(* they were computed the same way (a collision-free hasher).              *)
(***************************************************************************)
EXTENDS Integers, Sequences, FiniteSets, TLC

VARIABLES
    N,          \* the const generic N of SparseMerkleTree / PartialTree
    hasherBad,  \* the inputs on which the hasher returns Err
    ladder,     \* result of the last gen_empty_hashes call
    status,     \* "none" before new, "aborted" after a failed assert, "ok"
    smt,        \* the SparseMerkleTree: [tree, empty_hashes]
    M,          \* history: the leaf map inserted so far (slot -> value)
    newEmptyLeaf, \* history: the empty_leaf argument of new
    partial,    \* the PartialTree of the last batch_prove, if any
    tampered,   \* history: which part of partial was altered after batch_prove
    vres,       \* result of the last PartialTree::verify run
    pathres     \* result of the last generate_membership_path + check_membership

vars == <<N, hasherBad, ladder, status, smt, M, newEmptyLeaf, partial, tampered, vres, pathres>>

\* ---------------------------------------------------------------- bounds
\* Heights N explored: 1..MaxN.
MaxN == 4
\* Leaf values explored: Leaf(0)..Leaf(MaxVal).
MaxVal == 1

Pow2(k) == 2 ^ k

Min(S) == CHOOSE x \in S : \A y \in S : x <= y

\* ---------------------------------------------------------------- digests
Leaf(v) == <<v>>

LeafVals == {Leaf(v) : v \in 0..MaxVal}

\* A digest no leaf value and no hash equals.
Junk == << >>

\* FieldHasher::hash, Result<F>: Err on the inputs of bad, else the digest.
hash(bad, left, right) ==
    IF <<left, right>> \in bad
    THEN [ok |-> FALSE, val |-> Junk]
    ELSE [ok |-> TRUE, val |-> <<left, right>>]

\* The hasher of Sha256 and of Poseidon: always Ok.
H(left, right) == hash({}, left, right).val

\* ---------------------------------------------------------------- maps
EmptyMap == << >>

Put(t, k, v) == [x \in (DOMAIN t) \cup {k} |-> IF x = k THEN v ELSE t[x]]

Get(t, k, d) == IF k \in DOMAIN t THEN t[k] ELSE d

\* ---------------------------------------------------------------- index math
\* Option<u64> is the empty set (None) or a singleton (Some).
is_root(index) == index = 0

left_child(index) == 2 * index + 1

right_child(index) == 2 * index + 2

is_left_child(index) == index % 2 = 1

sibling(index) ==
    IF index = 0 THEN {}
    ELSE IF is_left_child(index) THEN {index + 1}
    ELSE {index - 1}

parent(index) == IF index > 0 THEN {(index - 1) \div 2} ELSE {}

convert_index_to_last_level(index, height) == index + Pow2(height) - 1

\* usize::next_power_of_two: the smallest power of two >= n (1 for n = 0).
RECURSIVE NextPow2From(_, _)
NextPow2From(p, n) == IF p >= n THEN p ELSE NextPow2From(2 * p, n)

next_power_of_two(n) == NextPow2From(1, n)

\* ark_std::log2: the ceiling of the base-2 logarithm, 0 for 0 and for 1.
RECURSIVE CeilLog2From(_, _, _)
CeilLog2From(k, p, n) == IF p >= n THEN k ELSE CeilLog2From(k + 1, 2 * p, n)

log2(number) == IF number = 0 THEN 0 ELSE CeilLog2From(0, 1, number)

tree_height(tree_size) == log2(tree_size)

\* ---------------------------------------------------------------- ladder
\* gen_empty_hashes with the push and the hash exchanged: the value pushed
\* is the hash of the running value.
RECURSIVE GenEmptyLoopHashFirst(_, _, _, _, _)
GenEmptyLoopHashFirst(bad, default_leaf, empty_hashes, ix, n) ==
    IF ix >= n
    THEN [ok |-> TRUE, val |-> empty_hashes]
    ELSE LET h == hash(bad, default_leaf, default_leaf)
         IN  IF ~h.ok
             THEN [ok |-> FALSE, val |-> << >>]
             ELSE GenEmptyLoopHashFirst(bad, h.val, Append(empty_hashes, h.val),
                                        ix + 1, n)

\* gen_empty_hashes: for ix in 0..N push the running value, then replace it
\* by hasher.hash([v, v])?, the ? returning the hasher's error at once.
RECURSIVE GenEmptyLoop(_, _, _, _, _)
GenEmptyLoop(bad, default_leaf, empty_hashes, ix, n) ==
    IF ix >= n
    THEN [ok |-> TRUE, val |-> empty_hashes]
    ELSE LET pushed == Append(empty_hashes, default_leaf)
             h == hash(bad, default_leaf, default_leaf)
         IN  IF ~h.ok
             THEN [ok |-> FALSE, val |-> << >>]
             ELSE GenEmptyLoop(bad, h.val, pushed, ix + 1, n)

gen_empty_hashes(bad, default_leaf, n) == GenEmptyLoop(bad, default_leaf, << >>, 0, n)

\* ---------------------------------------------------------------- full tree
\* SparseMerkleTree::root: tree[0], else the last entry of the ladder.
root(t) == Get(t.tree, 0, t.empty_hashes[Len(t.empty_hashes)])

\* insert_batch writing, next to every leaf, the empty leaf at its sibling
\* when the sibling is absent.
RECURSIVE InsertLeavesWithSibling(_, _, _, _, _)
InsertLeavesWithSibling(tree, level_idxs, leaves, todo, n) ==
    IF todo = {}
    THEN [ok |-> TRUE, tree |-> tree, idxs |-> level_idxs]
    ELSE LET i == Min(todo)
             true_index == (Pow2(n) - 1) + i
             sib == Min(sibling(true_index))
             t1 == Put(tree, true_index, leaves[i])
             t2 == IF sib \in DOMAIN t1 THEN t1 ELSE Put(t1, sib, Junk)
             idx == parent(true_index)
         IN  IF idx = {}
             THEN [ok |-> FALSE, tree |-> t2, idxs |-> level_idxs]
             ELSE InsertLeavesWithSibling(t2, level_idxs \cup idx, leaves,
                                          todo \ {i}, n)

\* First loop of insert_batch: write every leaf at last_level_index + i
\* and collect the parents.  bail!("parent not found") when there is none.
RECURSIVE InsertLeaves(_, _, _, _, _)
InsertLeaves(tree, level_idxs, leaves, todo, n) ==
    IF todo = {}
    THEN [ok |-> TRUE, tree |-> tree, idxs |-> level_idxs]
    ELSE LET i == Min(todo)
             true_index == (Pow2(n) - 1) + i
             t2 == Put(tree, true_index, leaves[i])
             idx == parent(true_index)
         IN  IF idx = {}
             THEN [ok |-> FALSE, tree |-> t2, idxs |-> level_idxs]
             ELSE InsertLeaves(t2, level_idxs \cup idx, leaves, todo \ {i}, n)

\* insert_batch leaving a node that is already in the map as it is.
RECURSIVE InsertLevelKeepExisting(_, _, _, _)
InsertLevelKeepExisting(tree, todo, new_idxs, empty_hash) ==
    IF todo = {}
    THEN [tree |-> tree, idxs |-> new_idxs]
    ELSE LET i == Min(todo)
             left == Get(tree, left_child(i), empty_hash)
             right == Get(tree, right_child(i), empty_hash)
             t2 == IF i \in DOMAIN tree THEN tree ELSE Put(tree, i, H(left, right))
         IN  IF parent(i) = {}
             THEN [tree |-> t2, idxs |-> new_idxs]
             ELSE InsertLevelKeepExisting(t2, todo \ {i}, new_idxs \cup parent(i),
                                          empty_hash)

\* Inner loop of insert_batch at one level: every index of level_idxs, in
\* ascending order, gets the hash of its two children (empty_hash when
\* absent); a node without parent ends the loop (break).
RECURSIVE InsertLevel(_, _, _, _)
InsertLevel(tree, todo, new_idxs, empty_hash) ==
    IF todo = {}
    THEN [tree |-> tree, idxs |-> new_idxs]
    ELSE LET i == Min(todo)
             left == Get(tree, left_child(i), empty_hash)
             right == Get(tree, right_child(i), empty_hash)
             t2 == Put(tree, i, H(left, right))
         IN  IF parent(i) = {}
             THEN [tree |-> t2, idxs |-> new_idxs]
             ELSE InsertLevel(t2, todo \ {i}, new_idxs \cup parent(i), empty_hash)

\* insert_batch reading empty_hashes[0] at every level.
RECURSIVE InsertLevelsFlatEmpty(_, _, _, _, _)
InsertLevelsFlatEmpty(tree, empty_hashes, level_idxs, level, n) ==
    IF level >= n
    THEN tree
    ELSE LET r == InsertLevel(tree, level_idxs, {}, empty_hashes[1])
         IN  InsertLevelsFlatEmpty(r.tree, empty_hashes, r.idxs, level + 1, n)

\* Outer loop of insert_batch: for level in 0..N.
RECURSIVE InsertLevels(_, _, _, _, _)
InsertLevels(tree, empty_hashes, level_idxs, level, n) ==
    IF level >= n
    THEN tree
    ELSE LET r == InsertLevel(tree, level_idxs, {}, empty_hashes[level + 1])
         IN  InsertLevels(r.tree, empty_hashes, r.idxs, level + 1, n)

\* SparseMerkleTree::insert_batch on the tree t with the leaf map leaves.
insert_batch(t, leaves, n) ==
    LET first == InsertLeaves(t.tree, {}, leaves, DOMAIN leaves, n)
    IN  IF ~first.ok
        THEN [ok |-> FALSE, smt |-> [t EXCEPT !.tree = first.tree]]
        ELSE [ok |-> TRUE,
              smt |-> [t EXCEPT !.tree =
                         InsertLevels(first.tree, t.empty_hashes, first.idxs, 0, n)]]

\* The capacity assertion of SparseMerkleTree::new.
CapacityOk(len, n) ==
    LET last_level_size == next_power_of_two(len)
        tree_size == 2 * last_level_size - 1
    IN  tree_height(tree_size) <= n

NoSmt == [tree |-> EmptyMap, empty_hashes |-> << >>]

\* SparseMerkleTree::new: "panic" when the assertion fails, "err" when
\* gen_empty_hashes or insert_batch return Err, else the tree.
new(leaves, bad, empty_leaf, n) ==
    IF ~CapacityOk(Cardinality(DOMAIN leaves), n)
    THEN [status |-> "panic", smt |-> NoSmt]
    ELSE LET eh == gen_empty_hashes(bad, empty_leaf, n)
         IN  IF ~eh.ok
             THEN [status |-> "err", smt |-> NoSmt]
             ELSE LET r == insert_batch([tree |-> EmptyMap, empty_hashes |-> eh.val],
                                        leaves, n)
                  IN  [status |-> IF r.ok THEN "ok" ELSE "err", smt |-> r.smt]

\* ---------------------------------------------------------------- paths
\* heapless::Vec index assignment path[level] = pair: a panic when level is
\* not below the vector's length.
RECURSIVE PathLoop(_, _, _, _)
PathLoop(t, path, current_node, level) ==
    IF is_root(current_node)
    THEN [status |-> "ok", path |-> path]
    ELSE LET sibling_node == Min(sibling(current_node))
             empty_hash == t.empty_hashes[level + 1]
             current == Get(t.tree, current_node, empty_hash)
             sib == Get(t.tree, sibling_node, empty_hash)
             pair == IF is_left_child(current_node)
                     THEN <<current, sib>> ELSE <<sib, current>>
         IN  IF level + 1 \notin 1..Len(path)
             THEN [status |-> "panic", path |-> path]
             ELSE PathLoop(t, [path EXCEPT ![level + 1] = pair],
                           Min(parent(current_node)), level + 1)

\* SparseMerkleTree::generate_membership_path: the path starts as
\* heapless::Vec::new(), of length 0.
generate_membership_path(t, index, n) ==
    PathLoop(t, << >>, convert_index_to_last_level(index, n), 0)

\* Path::calculate_root: path[0] panics on an empty path; InvalidLeaf and
\* InvalidPathNodes are Err.
RECURSIVE CalcLoop(_, _, _)
CalcLoop(path, prev, k) ==
    IF k > Len(path)
    THEN [status |-> "ok", val |-> prev]
    ELSE IF prev # path[k][1] /\ prev # path[k][2]
         THEN [status |-> "err", val |-> Junk]
         ELSE CalcLoop(path, H(path[k][1], path[k][2]), k + 1)

calculate_root(path, leaf) ==
    IF Len(path) = 0
    THEN [status |-> "panic", val |-> Junk]
    ELSE IF leaf # path[1][1] /\ leaf # path[1][2]
         THEN [status |-> "err", val |-> Junk]
         ELSE CalcLoop(path, leaf, 1)

\* Path::check_membership: Ok(root == *root_hash).
check_membership(path, root_hash, leaf) ==
    LET r == calculate_root(path, leaf)
    IN  [status |-> r.status, member |-> r.status = "ok" /\ r.val = root_hash]

\* ---------------------------------------------------------------- batch_prove
\* batch_prove copying the nodes of the walk but not their siblings.
RECURSIVE ProveWalkNoSibling(_, _, _, _)
ProveWalkNoSibling(t, ptree, current_node, level) ==
    IF is_root(current_node)
    THEN [ok |-> TRUE, tree |-> ptree]
    ELSE IF level >= Len(t.empty_hashes)
         THEN [ok |-> FALSE, tree |-> ptree]
         ELSE LET empty_hash == t.empty_hashes[level + 1]
                  current == Get(t.tree, current_node, empty_hash)
                  p1 == IF current # empty_hash
                        THEN Put(ptree, current_node, current) ELSE ptree
              IN  ProveWalkNoSibling(t, p1, Min(parent(current_node)), level + 1)

\* batch_prove copying every node and sibling, equal to the empty hash or not.
RECURSIVE ProveWalkKeepEmpty(_, _, _, _)
ProveWalkKeepEmpty(t, ptree, current_node, level) ==
    IF is_root(current_node)
    THEN [ok |-> TRUE, tree |-> ptree]
    ELSE IF level >= Len(t.empty_hashes)
         THEN [ok |-> FALSE, tree |-> ptree]
         ELSE LET sibling_node == Min(sibling(current_node))
                  empty_hash == t.empty_hashes[level + 1]
                  current == Get(t.tree, current_node, empty_hash)
                  sib == Get(t.tree, sibling_node, empty_hash)
                  p2 == Put(Put(ptree, current_node, current), sibling_node, sib)
              IN  ProveWalkKeepEmpty(t, p2, Min(parent(current_node)), level + 1)

\* The while loop of batch_prove for one leaf: from the leaf's node up to
\* the root, the node and its sibling are copied into the partial tree
\* unless they equal the empty hash of the level counter.  Indexing
\* empty_hashes at level >= N panics.
RECURSIVE ProveWalk(_, _, _, _)
ProveWalk(t, ptree, current_node, level) ==
    IF is_root(current_node)
    THEN [ok |-> TRUE, tree |-> ptree]
    ELSE IF level >= Len(t.empty_hashes)
         THEN [ok |-> FALSE, tree |-> ptree]
         ELSE LET sibling_node == Min(sibling(current_node))
                  empty_hash == t.empty_hashes[level + 1]
                  current == Get(t.tree, current_node, empty_hash)
                  sib == Get(t.tree, sibling_node, empty_hash)
                  p1 == IF current # empty_hash
                        THEN Put(ptree, current_node, current) ELSE ptree
                  p2 == IF sib # empty_hash
                        THEN Put(p1, sibling_node, sib) ELSE p1
              IN  ProveWalk(t, p2, Min(parent(current_node)), level + 1)

RECURSIVE ProveLeaves(_, _, _, _, _)
ProveLeaves(t, pt, leaves, k, n) ==
    IF k > Len(leaves)
    THEN [status |-> "ok", pt |-> pt]
    ELSE LET pushed == [pt EXCEPT !.leaves = Append(pt.leaves, leaves[k])]
             w == ProveWalk(t, pushed.tree,
                            convert_index_to_last_level(leaves[k], n), 0)
         IN  IF ~w.ok
             THEN [status |-> "panic", pt |-> pushed]
             ELSE ProveLeaves(t, [pushed EXCEPT !.tree = w.tree], leaves, k + 1, n)

\* SparseMerkleTree::batch_prove.
batch_prove(t, leaves, n) ==
    ProveLeaves(t,
                [tree |-> EmptyMap, empty_hashes |-> t.empty_hashes,
                 leaves |-> << >>, root |-> root(t)],
                leaves, 1, n)

\* ---------------------------------------------------------------- verify
\* verify committing the leaves before the root.
VerifyPrologueLeavesFirst(pt, notzk) ==
    IF notzk
    THEN [log |-> <<"println">>, sink |-> << >>]
    ELSE [log |-> <<"commit_leaves", "commit_root", "log">>,
          sink |-> <<pt.leaves, pt.root>>]

\* The cfg blocks that open PartialTree::verify.  Without the feature
\* notzk: env::commit(&self.root), env::commit(&self.leaves), env::log.
\* With it: one println.  log is the order of the run's effects, sink the
\* values committed.
VerifyPrologue(pt, notzk) ==
    IF notzk
    THEN [log |-> <<"println">>, sink |-> << >>]
    ELSE [log |-> <<"commit_root", "commit_leaves", "log">>,
          sink |-> <<pt.root, pt.leaves>>]

\* First loop of verify: the parents of the attested leaves.
RECURSIVE VerifyFrontier(_, _, _, _)
VerifyFrontier(leaves, k, level_idxs, n) ==
    IF k > Len(leaves)
    THEN [ok |-> TRUE, idxs |-> level_idxs]
    ELSE LET true_index == (Pow2(n) - 1) + leaves[k]
             idx == parent(true_index)
         IN  IF idx = {}
             THEN [ok |-> FALSE, idxs |-> level_idxs]
             ELSE VerifyFrontier(leaves, k + 1, level_idxs \cup idx, n)

\* Inner loop of verify at one level: assert!(expected == got) for every
\* index, in ascending order; each comparison is logged as "cmp".
RECURSIVE VerifyLevel(_, _, _, _, _, _)
VerifyLevel(pt, todo, new_idxs, empty_hash, empty_hash_parent, log) ==
    IF todo = {}
    THEN [ok |-> TRUE, idxs |-> new_idxs, log |-> log]
    ELSE LET i == Min(todo)
             left == Get(pt.tree, left_child(i), empty_hash)
             right == Get(pt.tree, right_child(i), empty_hash)
             got == Get(pt.tree, i, empty_hash_parent)
             expected == H(left, right)
             log2_ == Append(log, "cmp")
         IN  IF expected # got
             THEN [ok |-> FALSE, idxs |-> new_idxs, log |-> log2_]
             ELSE IF parent(i) = {}
                  THEN [ok |-> TRUE, idxs |-> new_idxs, log |-> log2_]
                  ELSE VerifyLevel(pt, todo \ {i}, new_idxs \cup parent(i),
                                   empty_hash, empty_hash_parent, log2_)

\* Outer loop of verify: for level in 0..(N - 1).
RECURSIVE VerifyLevels(_, _, _, _, _)
VerifyLevels(pt, level_idxs, level, log, n) ==
    IF level >= n - 1
    THEN [ok |-> TRUE, log |-> log]
    ELSE LET r == VerifyLevel(pt, level_idxs, {}, pt.empty_hashes[level + 1],
                              pt.empty_hashes[level + 2], log)
         IN  IF ~r.ok
             THEN [ok |-> FALSE, log |-> r.log]
             ELSE VerifyLevels(pt, r.idxs, level + 1, r.log, n)

\* PartialTree::verify: "ok" for Ok(()), "err" for the bail!, "panic" for a
\* failed assert!(expected == got).
verify(pt, notzk, n) ==
    LET pro == VerifyPrologue(pt, notzk)
        fr == VerifyFrontier(pt.leaves, 1, {}, n)
    IN  IF ~fr.ok
        THEN [status |-> "err", log |-> pro.log, sink |-> pro.sink]
        ELSE LET r == VerifyLevels(pt, fr.idxs, 0, pro.log, n)
             IN  [status |-> IF r.ok THEN "ok" ELSE "panic",
                  log |-> r.log, sink |-> pro.sink]

\* ---------------------------------------------------------------- inputs
\* Leaf slots the callers use at height n: both halves below the root, and
\* (from height 3 on) two slots that share an ancestor below the root.
LeafSlots(n) == {0, 3, Pow2(n) - 1} \cap (0..(Pow2(n) - 1))

\* The leaf maps (BTreeMap<u32, F>) passed to new and insert_batch.
LeafMaps(n) == UNION {[D -> LeafVals] : D \in SUBSET LeafSlots(n)}

\* A leaf map with 2^n + 1 entries, one more than there are slots.
Overfull(n) == [k \in 0..Pow2(n) |-> Leaf(0)]

\* The slot lists (&[u64]) passed to batch_prove: up to two slots, and one
\* list naming a slot that does not exist.
ProveLists(n) ==
    {<< >>, <<Pow2(n)>>}
        \cup {<<a>> : a \in LeafSlots(n)}
        \cup {<<a, b>> : a \in LeafSlots(n), b \in LeafSlots(n)}

\* Depth of a heap-encoded node index below the root.
RECURSIVE Depth(_)
Depth(index) == IF index = 0 THEN 0 ELSE 1 + Depth((index - 1) \div 2)

\* Levels above the leaves of a node index in a tree of height n.
LevelOf(index, n) == n - Depth(index)

\* ---------------------------------------------------------------- state
NoPt == [tree |-> EmptyMap, empty_hashes |-> << >>, leaves |-> << >>, root |-> Junk]

NoPartial == [status |-> "none", pt |-> NoPt]

NoVres == [status |-> "none", log |-> << >>, sink |-> << >>, notzk |-> FALSE]

NoPath == [status |-> "none", slot |-> 0, member |-> FALSE]

NoLadder == [status |-> "none", default |-> Junk, val |-> << >>]

Init ==
    /\ N \in 1..MaxN
    /\ hasherBad = {}
    /\ ladder = NoLadder
    /\ status = "none"
    /\ smt = NoSmt
    /\ M = EmptyMap
    /\ newEmptyLeaf = Junk
    /\ partial = NoPartial
    /\ tampered = "none"
    /\ vres = NoVres
    /\ pathres = NoPath

\* let smt = SparseMerkleTree::new(&leaves, &hasher, e)
New(leaves, e) ==
    /\ status = "none"
    /\ LET r == new(leaves, hasherBad, e, N)
       IN  /\ status' = IF r.status = "panic" THEN "aborted" ELSE r.status
           /\ smt' = r.smt
    /\ M' = leaves
    /\ newEmptyLeaf' = e
    /\ UNCHANGED <<N, hasherBad, ladder, partial, tampered, vres, pathres>>

\* smt.insert_batch(&leaves, &hasher), while no proof of the tree is held.
InsertBatch(leaves) ==
    /\ status = "ok"
    /\ partial.status = "none"
    /\ pathres.status = "none"
    /\ LET r == insert_batch(smt, leaves, N)
       IN  /\ smt' = r.smt
           /\ status' = IF r.ok THEN "ok" ELSE "err"
    /\ M' = [k \in (DOMAIN M) \cup (DOMAIN leaves) |->
               IF k \in DOMAIN leaves THEN leaves[k] ELSE M[k]]
    /\ UNCHANGED <<N, hasherBad, ladder, newEmptyLeaf, partial, tampered, vres, pathres>>

\* let path = smt.generate_membership_path(k);
\* path.check_membership(&smt.root(), &leaf, &hasher)
GenPath(k) ==
    /\ status = "ok"
    /\ partial.status = "none"
    /\ pathres.status = "none"
    /\ LET r == generate_membership_path(smt, k, N)
           leaf == Get(M, k, smt.empty_hashes[1])
           c == check_membership(r.path, root(smt), leaf)
       IN  pathres' = IF r.status = "ok"
                      THEN [status |-> c.status, slot |-> k, member |-> c.member]
                      ELSE [status |-> r.status, slot |-> k, member |-> FALSE]
    /\ UNCHANGED <<N, hasherBad, ladder, status, smt, M, newEmptyLeaf, partial, tampered, vres>>

\* let partial = smt.batch_prove(&leaves)
BatchProve(leaves) ==
    /\ status = "ok"
    /\ partial.status = "none"
    /\ pathres.status = "none"
    /\ partial' = batch_prove(smt, leaves, N)
    /\ tampered' = "none"
    /\ UNCHANGED <<N, hasherBad, ladder, status, smt, M, newEmptyLeaf, vres, pathres>>

\* The holder of the PartialTree replaces the digest of one entry of its
\* tree map (pub tree) by a different value.
TamperNode(i, d) ==
    /\ partial.status = "ok"
    /\ tampered = "none"
    /\ vres.status = "none"
    /\ i \in DOMAIN partial.pt.tree
    /\ d # partial.pt.tree[i]
    /\ partial' = [partial EXCEPT !.pt.tree[i] = d]
    /\ tampered' = "node"
    /\ UNCHANGED <<N, hasherBad, ladder, status, smt, M, newEmptyLeaf, vres, pathres>>

\* The holder of the PartialTree replaces its root field (pub root).
TamperRoot(d) ==
    /\ partial.status = "ok"
    /\ tampered = "none"
    /\ vres.status = "none"
    /\ d # partial.pt.root
    /\ partial' = [partial EXCEPT !.pt.root = d]
    /\ tampered' = "root"
    /\ UNCHANGED <<N, hasherBad, ladder, status, smt, M, newEmptyLeaf, vres, pathres>>

\* partial.verify(&hasher), built with or without the feature notzk.
Verify(notzk) ==
    /\ partial.status = "ok"
    /\ vres.status = "none"
    /\ LET r == verify(partial.pt, notzk, N)
       IN  vres' = [status |-> r.status, log |-> r.log, sink |-> r.sink,
                    notzk |-> notzk]
    /\ UNCHANGED <<N, hasherBad, ladder, status, smt, M, newEmptyLeaf, partial, tampered, pathres>>

\* The PartialTree or Path held is dropped.
Discard ==
    /\ partial.status # "none" \/ pathres.status # "none"
    /\ partial' = NoPartial
    /\ tampered' = "none"
    /\ vres' = NoVres
    /\ pathres' = NoPath
    /\ UNCHANGED <<N, hasherBad, ladder, status, smt, M, newEmptyLeaf>>

\* The digests a tampered entry at node i may take.
TamperVals(i) ==
    IF i \in DOMAIN partial.pt.tree /\ LevelOf(i, N) \in 0..(N - 1)
    THEN {Junk, partial.pt.empty_hashes[LevelOf(i, N) + 1]}
    ELSE {Junk}

Next ==
    \/ \E leaves \in LeafMaps(N) \cup {Overfull(N)}, e \in LeafVals : New(leaves, e)
    \/ \E leaves \in LeafMaps(N) : InsertBatch(leaves)
    \/ \E k \in LeafSlots(N) : GenPath(k)
    \/ \E leaves \in ProveLists(N) : BatchProve(leaves)
    \/ \E i \in DOMAIN partial.pt.tree : \E d \in TamperVals(i) : TamperNode(i, d)
    \/ \E d \in {Junk} \cup LeafVals : TamperRoot(d)
    \/ \E notzk \in BOOLEAN : Verify(notzk)
    \/ Discard

Spec == Init /\ [][Next]_vars

\* ---------------------------------------------------------------- ladder runs
\* The l-th value of the ladder over default_leaf, computed without the hasher.
RECURSIVE LadderTerm(_, _)
LadderTerm(d, l) == IF l = 0 THEN d ELSE <<LadderTerm(d, l - 1), LadderTerm(d, l - 1)>>

\* The hasher inputs gen_empty_hashes can meet at the heights explored.
LadderInputs == {<<LadderTerm(d, l), LadderTerm(d, l)>> : d \in LeafVals, l \in 0..(MaxN - 1)}

\* Hashers that err on no input, on one or on two of those inputs.
BadSets == {B \in SUBSET LadderInputs : Cardinality(B) <= 2}

InitLadder ==
    /\ N \in 1..MaxN
    /\ hasherBad \in BadSets
    /\ ladder = NoLadder
    /\ status = "none"
    /\ smt = NoSmt
    /\ M = EmptyMap
    /\ newEmptyLeaf = Junk
    /\ partial = NoPartial
    /\ tampered = "none"
    /\ vres = NoVres
    /\ pathres = NoPath

\* gen_empty_hashes::<F, H, N>(&hasher, default_leaf)
GenEmptyHashes(d) ==
    /\ LET r == gen_empty_hashes(hasherBad, d, N)
       IN  ladder' = [status |-> IF r.ok THEN "ok" ELSE "err",
                      default |-> d, val |-> r.val]
    /\ UNCHANGED <<N, hasherBad, status, smt, M, newEmptyLeaf, partial, tampered,
                   vres, pathres>>

NextLadder == \E d \in LeafVals : GenEmptyHashes(d)

SpecLadder == InitLadder /\ [][NextLadder]_vars

\* ---------------------------------------------------------------- properties
\* The slot list of the PartialTree held is non-empty and names inserted slots.
ProvedInserted ==
    /\ partial.pt.leaves # << >>
    /\ \A k \in 1..Len(partial.pt.leaves) : partial.pt.leaves[k] \in DOMAIN M

\* C1: partial round-trip.  For a tree built by new and any insert_batch
\* calls, batch_prove over a non-empty list of inserted slots returns a
\* PartialTree whose root is the tree's root and whose verify returns Ok.
C1_PartialRoundTrip ==
    (partial.status # "none" /\ tampered = "none" /\ ProvedInserted)
        => /\ partial.status = "ok"
           /\ partial.pt.root = root(smt)
           /\ vres.status # "none" => vres.status = "ok"

\* A proof of two inserted slots whose verify compared hashes and succeeded.
C1_Witness ==
    /\ partial.status = "ok" /\ tampered = "none" /\ ProvedInserted
    /\ Len(partial.pt.leaves) = 2
    /\ partial.pt.leaves[1] # partial.pt.leaves[2]
    /\ vres.status = "ok"
    /\ \E j \in 1..Len(vres.log) : vres.log[j] = "cmp"
    /\ N >= 3

\* C2: proof round-trip.  For every inserted slot k with value x,
\* generate_membership_path(k) returns a path, and check_membership of
\* that path with the tree's root and x is true.
C2_ProofRoundTrip ==
    (pathres.status # "none" /\ pathres.slot \in DOMAIN M)
        => pathres.status = "ok" /\ pathres.member

\* C3: forgery resistance.  Replacing the digest of any one entry of a
\* PartialTree produced by batch_prove over a non-empty slot list makes
\* verify fail.
C3_ForgeryResistance ==
    (tampered = "node" /\ ProvedInserted /\ vres.status # "none")
        => vres.status # "ok"

\* C4: root tamper rejection.  Changing only the root field of a
\* PartialTree produced by batch_prove over a non-empty list of inserted
\* slots makes verify fail on a hash mismatch.
C4_RootTamperRejected ==
    (tampered = "root" /\ ProvedInserted /\ vres.status # "none")
        => vres.status = "panic"

\* C5: root determinism across batch order.  Whatever sequence of
\* insert_batch calls produced the leaf map M, the tree's root is the root
\* of the single construction new(M) with the same hasher and empty leaf.
C5_RootDeterminism ==
    status = "ok"
        => LET r == new(M, hasherBad, newEmptyLeaf, N)
           IN  r.status = "ok" /\ root(r.smt) = root(smt)

\* The tree holding exactly the leaf map {3: v} at height 4.
C6_Case == N = 4 /\ status = "ok" /\ DOMAIN M = {3}

\* C6, as stated: with N = 4 and e0 the empty leaf, the root of the tree
\* holding {3: v} is H(H(H(e0,e0), H(e0,v)), H(H(e0,e0), H(e0,e0))).
C6_ReferenceRootAsStated ==
    C6_Case
        => LET e0 == newEmptyLeaf
               v == M[3]
           IN  root(smt) = H(H(H(e0, e0), H(e0, v)), H(H(e0, e0), H(e0, e0)))

\* C6, amended: with N = 4 and e0 the empty leaf, the root of the tree
\* holding {3: v} is H(X, E3), where X is the stated value
\* H(H(H(e0,e0), H(e0,v)), H(H(e0,e0), H(e0,e0))) and E3 is the empty hash
\* three levels above the leaves, H(E2, E2) with E2 = H(H(e0,e0), H(e0,e0)).
C6_ReferenceRoot ==
    C6_Case
        => LET e0 == newEmptyLeaf
               v == M[3]
               E2 == H(H(e0, e0), H(e0, e0))
               X == H(H(H(e0, e0), H(e0, v)), E2)
           IN  root(smt) = H(X, H(E2, E2))

\* The tree {3: v} at height 4 with v different from the empty leaf.
C6_Witness == C6_Case /\ M[3] # newEmptyLeaf

\* C7: capacity check.  new aborts when the leaf map has more than 2^N
\* entries and does not abort when it has at most 2^N entries.
C7_CapacityCheck ==
    status # "none"
        => (status = "aborted" <=> Cardinality(DOMAIN M) > Pow2(N))

\* Some hasher call of gen_empty_hashes over default leaf d errs.
LadderCallErrs(d) ==
    \E l \in 0..(N - 1) : <<LadderTerm(d, l), LadderTerm(d, l)>> \in hasherBad

\* C8: empty-hash ladder.  When no hasher call errs, gen_empty_hashes
\* returns N values, the first the default leaf and each later one the
\* hash of its predecessor with itself; when a hasher call errs, it
\* returns the error.
C8_EmptyLadder ==
    ladder.status # "none"
        => IF LadderCallErrs(ladder.default)
           THEN ladder.status = "err"
           ELSE /\ ladder.status = "ok"
                /\ Len(ladder.val) = N
                /\ ladder.val[1] = ladder.default
                /\ \A l \in 2..N :
                       ladder.val[l] = H(ladder.val[l - 1], ladder.val[l - 1])

\* A ladder of at least three values returned by a hasher that errs on
\* some input the call did not meet.
C8_Witness ==
    /\ ladder.status = "ok"
    /\ N >= 3
    /\ hasherBad # {}

\* C9: minimality.  No entry of the tree map of a PartialTree produced by
\* batch_prove equals the empty hash of the entry's level, the leaves
\* being level 0.
C9_Minimality ==
    (partial.status = "ok" /\ tampered = "none")
        => \A i \in DOMAIN partial.pt.tree :
               /\ LevelOf(i, N) \in 0..(N - 1)
               /\ partial.pt.tree[i] # partial.pt.empty_hashes[LevelOf(i, N) + 1]

\* A proof of a slot inserted with the empty leaf's value: its leaf node
\* is left out while other nodes are kept.
C9_Witness ==
    /\ partial.status = "ok" /\ tampered = "none"
    /\ partial.pt.tree # EmptyMap
    /\ \E k \in 1..Len(partial.pt.leaves) :
           LET s == partial.pt.leaves[k]
           IN  /\ s \in DOMAIN M
               /\ M[s] = newEmptyLeaf
               /\ convert_index_to_last_level(s, N) \notin DOMAIN partial.pt.tree

\* C10: witness ordering.  Built without notzk, every run of verify
\* commits the root first and the leaves second, both before its first
\* hash comparison, whether the run succeeds or aborts.
C10_WitnessOrdering ==
    (vres.status # "none" /\ ~vres.notzk)
        => /\ Len(vres.log) >= 2
           /\ vres.log[1] = "commit_root"
           /\ vres.log[2] = "commit_leaves"
           /\ Len(vres.sink) = 2
           /\ vres.sink[1] = partial.pt.root
           /\ vres.sink[2] = partial.pt.leaves
           /\ \A j \in 1..Len(vres.log) : vres.log[j] = "cmp" => j > 2

\* A run without notzk that aborted on its second hash comparison or later.
C10_Witness ==
    /\ vres.status = "panic"
    /\ ~vres.notzk
    /\ Cardinality({j \in 1..Len(vres.log) : vres.log[j] = "cmp"}) >= 2

\* C11: node consistency.  After new and any successful insert_batch
\* calls, every node of the tree map that sits l >= 1 levels above the
\* leaves equals the hash of its two children, a child being its map value
\* when present and empty_hashes[l-1] when absent.
C11_NodeConsistency ==
    status = "ok"
        => \A i \in DOMAIN smt.tree :
               LET l == LevelOf(i, N)
               IN  l >= 1
                   => smt.tree[i] =
                          H(Get(smt.tree, left_child(i), smt.empty_hashes[l]),
                            Get(smt.tree, right_child(i), smt.empty_hashes[l]))

\* A tree of two or more leaves with a node, two or more levels above the
\* leaves, that has one child in the map and one imputed from the ladder.
C11_Witness ==
    /\ status = "ok"
    /\ Cardinality(DOMAIN M) >= 2
    /\ \E i \in DOMAIN smt.tree :
           /\ LevelOf(i, N) >= 2
           /\ left_child(i) \in DOMAIN smt.tree
           /\ right_child(i) \notin DOMAIN smt.tree

\* C12, as stated: the tree map has at most (inserted slots) * N entries.
C12_SizeBoundAsStated ==
    status = "ok"
        => Cardinality(DOMAIN smt.tree) <= Cardinality(DOMAIN M) * N

\* C12, amended: after new and any insert_batch calls, the tree map has at
\* most (number of distinct inserted leaf slots) * (N + 1) entries: every
\* inserted leaf brings its own node and its N ancestors.
C12_SizeBound ==
    status = "ok"
        => Cardinality(DOMAIN smt.tree) <= Cardinality(DOMAIN M) * (N + 1)

\* A tree of one inserted leaf holding N + 1 entries.
C12_Witness ==
    /\ status = "ok"
    /\ Cardinality(DOMAIN M) = 1
    /\ Cardinality(DOMAIN smt.tree) = N + 1
    /\ N >= 2

====
